---- MODULE Spec2Model ----
(***************************************************************************)
(* IntelliGlass controller: the orchestrator of main.py, the PI tracking   *)
(* controller of tracking.py, the actuator driver of actuators.py and the  *)
(* message-bus state of mqtt.py that the orchestrator reads.               *)
(*                                                                         *)
(* Fixed point.  Python computes with floats; the model computes the same  *)
(* expressions exactly, on integers:                                       *)
(*   time            in centiseconds          (1 s      = TimeUnit)        *)
(*   integral_error  in hundredths            (1.0      = IntUnit)         *)
(*   angles          in 1/10000 of a degree   (1 degree = AngleUnit)       *)
(* error is a difference of two light readings (integers here), so         *)
(* error * dt[s] is error * dt[cs] hundredths, and                         *)
(* (P*error + I*integral) * 0.01 degrees is                                *)
(* (P*error*IntUnit + I*integral[hundredths]) * 1 ten-thousandths.         *)
(***************************************************************************)
EXTENDS Integers, Sequences, FiniteSets, TLC

VARIABLES
    pc,                 \* position of the single thread of control
    now,                \* what time.time() returns during the current tick
    last_sensor_check,  \* main_loop local
    last_mqtt_publish,  \* main_loop local
    system_status,      \* main.system_status
    integral_error,     \* tracking.integral_error
    last_update_time,   \* tracking.last_update_time
    target_angle,       \* tracking.target_angle
    ldr_values,         \* update(): the readings of its call in this tick
    dt,                 \* update(): the dt its non-skipped call in this tick multiplied in
    current_panel_angle,\* actuators.current_panel_angle
    window_state,       \* actuators.window_state
    motor,              \* chain_motor_pin1 / pin2 / enable outputs
    client,             \* mqtt.client is not None
    connected,          \* mqtt.connected
    msg,                \* inbound command waiting at the message-check step
    status_data,        \* the record publish_status built in this tick
    alert,              \* reason of the alert emergency_close built in this tick
    last_op,            \* the operation the last step ran (a command: its action)
    updates,            \* number of non-skipped update() calls so far
    arg,                \* the angle argument of a direct call of the last step
    polled              \* the latest sensor poll: its rain and smoke readings, and
                        \* whether it cleared flags that an earlier poll had set

vars == <<pc, now, last_sensor_check, last_mqtt_publish,
          system_status, integral_error, last_update_time, target_angle,
          ldr_values, dt, current_panel_angle, window_state, motor, client,
          connected, msg, status_data, alert, last_op, updates, arg, polled>>

----------------------------------------------------------------------------
(* Units of the fixed-point representation. *)
TimeUnit  == 10 * 10
IntUnit   == 10 * 10
AngleUnit == 100 * 100

(* Program constants. *)
P_GAIN == 240
I_GAIN == 180
MIN_PANEL_ANGLE == 0
MAX_PANEL_ANGLE == 180
MIN_LIGHT_THRESHOLD == 200
MAX_INTEGRAL == 100
ANGLE_SCALING_FACTOR_HUNDREDTHS == 1
SENSOR_CHECK_PERIOD == 2
PUBLISH_PERIOD == 30
DEFAULT_ANGLE == 90
DT_FLOOR_CS == 1
rain_threshold == 1000
smoke_threshold == 1200
CMD_MIN_ANGLE == 0
CMD_MAX_ANGLE == 180

(* Bounds of the model. *)
MaxTime    == 400
StartTime  == 200
MaxUpdates == 2
MaxApiTime == 100
MaxApiUpdates == 2

(* Inputs the environment supplies. *)
TimeSteps  == {0, SENSOR_CHECK_PERIOD * TimeUnit}
LightPairs == {<<100, 100>>, <<300, 300>>, <<500, 300>>, <<300, 299>>}
PollLight  == {<<500, 300>>}
ApiLightPairs == LightPairs \cup {<<300, 500>>}
ApiTimes   == {t \in 0..MaxApiTime : (t % TimeUnit) \in {0, 1}}
RainRaw    == {rain_threshold - 1, rain_threshold}
SmokeRaw   == {smoke_threshold, smoke_threshold + 1}
CmdAngles  == {0 - 10 * AngleUnit, 45 * AngleUnit, 200 * AngleUnit}
ApiAngles  == CmdAngles \cup {180 * AngleUnit}
ActAngles  == ApiAngles \cup {0 - 1, 0, 1, 90 * AngleUnit, 135 * AngleUnit,
                              180 * AngleUnit - 1, 180 * AngleUnit + 1}

----------------------------------------------------------------------------
(* Python's max and min. *)
max2(a, b) == IF a >= b THEN a ELSE b
min2(a, b) == IF a <= b THEN a ELSE b


(* The clock: the readings time.time() may give after a blocking sleep. *)
NextTimes == {t \in 0..MaxTime : (t - now) \in TimeSteps}

NoMsg == [parses |-> FALSE, has_action |-> FALSE, action |-> "none",
          has_angle |-> FALSE, numeric |-> FALSE, angle |-> 0]

Cmd(a) == [parses |-> TRUE, has_action |-> TRUE, action |-> a,
           has_angle |-> FALSE, numeric |-> FALSE, angle |-> 0]

(* The payloads a command message may carry. *)
Messages ==
    {[NoMsg EXCEPT !.action = "garbage"],
     [NoMsg EXCEPT !.parses = TRUE, !.action = "absent"]}
    \cup {Cmd(a) : a \in {"open_window", "close_window", "set_angle",
                          "toggle_tracking", "toggle_auto", "unknown"}}
    \cup {[Cmd("set_angle") EXCEPT !.has_angle = TRUE]}
    \cup {[Cmd("set_angle") EXCEPT !.has_angle = TRUE, !.numeric = TRUE, !.angle = a] :
             a \in CmdAngles}

NoStatus == [built |-> FALSE, window_open |-> FALSE, tracking_enabled |-> FALSE,
             panel_angle |-> 0, light_level |-> 0, rain_detected |-> FALSE,
             smoke_detected |-> FALSE, timestamp |-> 0, auto_mode |-> FALSE,
             result |-> "none"]

NoPoll == [rain_value |-> 0, smoke_value |-> 0, cleared |-> FALSE]

MotorStopped == [pin1 |-> 0, pin2 |-> 0, enable |-> 0]
MotorOpening == [pin1 |-> 1, pin2 |-> 0, enable |-> 1]
MotorClosing == [pin1 |-> 0, pin2 |-> 1, enable |-> 1]

----------------------------------------------------------------------------
(* sensors.py *)

check_rain(value)  == value < rain_threshold
check_smoke(value) == value > smoke_threshold

----------------------------------------------------------------------------
(* actuators.py *)

(* Mutant of set_panel_angle: the angle is recorded as given. *)
set_panel_angle_unclamped(angle) == current_panel_angle' = angle

(* set_panel_angle: clamp, drive the servo, record the angle. *)
set_panel_angle(angle) ==
    current_panel_angle' =
        max2(MIN_PANEL_ANGLE * AngleUnit, min2(MAX_PANEL_ANGLE * AngleUnit, angle))

(* Mutant of window_is_open: the state is compared with a label that is    *)
(* never set.                                                               *)
window_is_open_typo == window_state = "opened"

(* The early-return test of open_window. *)
window_is_open == window_state = "open"

(* The early-return test of close_window. *)
window_is_closed == window_state = "closed"

(* Mutant of stop_chain_motor: the driver is left enabled. *)
stop_chain_motor_enabled == motor' = [pin1 |-> 0, pin2 |-> 0, enable |-> motor.enable]

(* stop_chain_motor: both direction pins low, the enable pin off. *)
stop_chain_motor == motor' = MotorStopped

(* emergency_stop *)
emergency_stop == stop_chain_motor

(* Mutant of open_window_begin: the "moving" label is not set. *)
open_window_begin_unlabelled ==
    /\ window_state' = window_state
    /\ motor' = MotorOpening

(* open_window up to its time.sleep(WINDOW_OPERATION_TIME). *)
open_window_begin ==
    /\ window_state' = "moving"
    /\ motor' = MotorOpening

(* open_window from the end of its sleep: stop_chain_motor, then "open". *)
open_window_end ==
    /\ stop_chain_motor
    /\ window_state' = "open"

close_window_begin ==
    /\ window_state' = "moving"
    /\ motor' = MotorClosing

(* Mutant of close_window_end: the final state is the one open_window sets. *)
close_window_end_opens ==
    /\ motor' = MotorStopped
    /\ window_state' = "open"

close_window_end ==
    /\ stop_chain_motor
    /\ window_state' = "closed"

----------------------------------------------------------------------------
(* tracking.py *)

(* Mutant of floor_dt: the measured time is used as it is. *)
floor_dt_unfloored(measured) == measured

(* dt as update() multiplies it in: the measured time, floored at 0.01 s. *)
floor_dt(measured) == IF measured < DT_FLOOR_CS THEN DT_FLOOR_CS ELSE measured

(* Mutant of next_integral: on reaching a limit the accumulator is cleared. *)
next_integral_resets(integral, error, d) ==
    IF integral + error * d >= MAX_INTEGRAL * IntUnit
          \/ integral + error * d <= 0 - MAX_INTEGRAL * IntUnit
    THEN 0
    ELSE integral + error * d

(* Mutant of next_integral: no anti-windup. *)
next_integral_unbounded(integral, error, d) == integral + error * d

(* integral_error after update(): accumulate, then anti-windup. *)
next_integral(integral, error, d) ==
    max2(0 - MAX_INTEGRAL * IntUnit,
         min2(MAX_INTEGRAL * IntUnit, integral + error * d))

(* Mutant of next_target: the gains are swapped. *)
next_target_swapped(target, error, integral) ==
    LET control_output == I_GAIN * error * IntUnit + P_GAIN * integral
    IN  max2(MIN_PANEL_ANGLE * AngleUnit,
             min2(MAX_PANEL_ANGLE * AngleUnit,
                  target + control_output * ANGLE_SCALING_FACTOR_HUNDREDTHS))

(* target_angle after update(): PI output, scaled, added, constrained. *)
next_target(target, error, integral) ==
    LET p_term == P_GAIN * error * IntUnit
        i_term == I_GAIN * integral
        control_output == p_term + i_term
        angle_adjustment == control_output * ANGLE_SCALING_FACTOR_HUNDREDTHS
    IN  max2(MIN_PANEL_ANGLE * AngleUnit,
             min2(MAX_PANEL_ANGLE * AngleUnit, target + angle_adjustment))

(* Mutant of low_light: the test is on the light the two sensors miss. *)
low_light_sum(ldr) == ldr[1] + ldr[2] < MIN_LIGHT_THRESHOLD

(* The skip test of update(): max(ldr_values) < MIN_LIGHT_THRESHOLD. *)
low_light(ldr) == max2(ldr[1], ldr[2]) < MIN_LIGHT_THRESHOLD

(* Mutant of ldr_error: the second reading is not subtracted. *)
ldr_error_first_only(ldr) == ldr[1]

(* error = ldr_values[0] - ldr_values[1] *)
ldr_error(ldr) == ldr[1] - ldr[2]

(* tracking.update() with the readings ldr. *)
update(ldr) ==
    /\ ldr_values' = ldr
    /\ IF low_light(ldr)
       THEN /\ last_op' = "update_skipped"
            /\ UNCHANGED <<integral_error, last_update_time, target_angle, dt,
                           current_panel_angle, updates>>
       ELSE LET error == ldr_error(ldr)
                d == floor_dt(now - last_update_time)
                i == next_integral(integral_error, error, d)
                t == next_target(target_angle, error, i)
            IN  /\ last_op' = "update"
                /\ last_update_time' = now
                /\ dt' = d
                /\ integral_error' = i
                /\ target_angle' = t
                /\ set_panel_angle(t)
                /\ updates' = updates + 1

(* tracking.reset() *)
reset ==
    /\ target_angle' = DEFAULT_ANGLE * AngleUnit
    /\ integral_error' = 0
    /\ set_panel_angle(DEFAULT_ANGLE * AngleUnit)

(* tracking.set_angle(angle) *)
set_angle(angle) ==
    LET t == max2(MIN_PANEL_ANGLE * AngleUnit, min2(MAX_PANEL_ANGLE * AngleUnit, angle))
    IN  /\ target_angle' = t
        /\ integral_error' = 0
        /\ set_panel_angle(t)

----------------------------------------------------------------------------
(* mqtt.py *)

(* publish(): `connected` is assigned in its except branch and not declared  *)
(* global, so it is a local of publish; reading it in the guard raises as    *)
(* soon as `client` is truthy.  With no client the guard short-circuits.     *)
mqtt_publish(cl, conn) == IF cl THEN "raise" ELSE "false"

(* check_msg(): the same shape as publish(). *)
mqtt_check_msg(cl, conn) == IF cl THEN "raise" ELSE "false"

(* connect(): the client is built, then broker connect and subscribe; on     *)
(* success connected = True and the connection status is published inside    *)
(* the same try, whose except sets connected = False and returns False.      *)
mqtt_connect(brokerOk) ==
    IF ~brokerOk
    THEN [client |-> TRUE, connected |-> FALSE, result |-> FALSE]
    ELSE IF mqtt_publish(TRUE, TRUE) = "raise"
         THEN [client |-> TRUE, connected |-> FALSE, result |-> FALSE]
         ELSE [client |-> TRUE, connected |-> TRUE, result |-> TRUE]

----------------------------------------------------------------------------
(* main.py *)

TypeOK ==
    /\ pc \in {"act", "act_opening", "act_closing", "api", "init", "poll",
               "ec_moving", "track", "publish", "msgs", "cmd",
               "cmd_moving", "sleep", "halted"}
    /\ now \in 0..max2(MaxTime, MaxApiTime)
    /\ window_state \in {"closed", "open", "moving"}
    /\ motor \in {MotorStopped, MotorOpening, MotorClosing}
    /\ client \in BOOLEAN /\ connected \in BOOLEAN
    /\ msg \in Messages \cup {NoMsg}
    /\ alert \in {"none", "rain", "smoke"}
    /\ updates \in 0..max2(MaxUpdates, MaxApiUpdates)

(* Module state after import, before initialize_system() runs. *)
Init ==
    /\ pc = "init"
    /\ now = StartTime
    /\ last_sensor_check = 0
    /\ last_mqtt_publish = 0
    /\ system_status = [window_open |-> FALSE, tracking_enabled |-> TRUE,
                        panel_angle |-> DEFAULT_ANGLE * AngleUnit, light_level |-> 0,
                        rain_detected |-> FALSE, smoke_detected |-> FALSE,
                        last_update |-> 0, auto_mode |-> TRUE]
    /\ integral_error = 0
    /\ last_update_time = 0
    /\ target_angle = DEFAULT_ANGLE * AngleUnit
    /\ ldr_values = <<0, 0>>
    /\ dt = 0
    /\ current_panel_angle = DEFAULT_ANGLE * AngleUnit
    /\ window_state = "closed"
    /\ motor = MotorStopped
    /\ client = FALSE
    /\ connected = FALSE
    /\ msg = NoMsg
    /\ status_data = NoStatus
    /\ alert = "none"
    /\ last_op = "none"
    /\ updates = 0
    /\ arg = 0
    /\ polled = NoPoll

(* initialize_system(): hardware bring-up, WiFi, MQTT, initial panel angle. *)
initialize_system(wifiOk, brokerOk) ==
    /\ pc = "init"
    /\ motor' = MotorStopped
    /\ IF wifiOk
       THEN LET r == mqtt_connect(brokerOk)
            IN  client' = r.client /\ connected' = r.connected
       ELSE UNCHANGED <<client, connected>>
    /\ set_panel_angle(system_status.panel_angle)
    /\ last_op' = IF wifiOk /\ brokerOk THEN "initialize_system_broker_up"
                  ELSE "initialize_system"
    /\ pc' = "poll"
    /\ UNCHANGED <<now, last_sensor_check, polled, last_mqtt_publish, system_status,
                   integral_error, last_update_time, target_angle, ldr_values, dt,
                   window_state, msg, status_data, alert, updates, arg>>

(* The reason emergency_close() writes into its alert. *)
alert_reason(status) == IF status.rain_detected THEN "rain" ELSE "smoke"

(* The record publish_status() builds from system_status. *)
status_record(status) ==
    [built |-> TRUE, window_open |-> status.window_open,
     tracking_enabled |-> status.tracking_enabled,
     panel_angle |-> status.panel_angle, light_level |-> status.light_level,
     rain_detected |-> status.rain_detected,
     smoke_detected |-> status.smoke_detected,
     timestamp |-> status.last_update, auto_mode |-> status.auto_mode,
     result |-> "none"]

(* publish_status(): the record, and what mqtt.publish does with it. *)
publish_status(status) ==
    [status_record(status) EXCEPT !.result = mqtt_publish(client, connected)]

(* Mutant of polled_status: a flag once set stays set. *)
polled_status_latched(status, ldr, rain, smoke, t) ==
    [status EXCEPT !.light_level = ((ldr[1] + ldr[2]) * IntUnit) \div 2,
                   !.rain_detected = status.rain_detected \/ rain,
                   !.smoke_detected = status.smoke_detected \/ smoke,
                   !.last_update = t]

(* system_status as check_sensors() leaves it, before any emergency close. *)
polled_status(status, ldr, rain, smoke, t) ==
    [status EXCEPT !.light_level = ((ldr[1] + ldr[2]) * IntUnit) \div 2,
                   !.rain_detected = rain,
                   !.smoke_detected = smoke,
                   !.last_update = t]

(* The part of emergency_close() after close_window() returns: the alert,   *)
(* built and handed to mqtt.publish only when mqtt.is_connected().  The     *)
(* call is outside any try, so an exception in it leaves main_loop.         *)
emergency_alert(status, next_pc) ==
    IF connected
    THEN /\ alert' = alert_reason(status)
         /\ pc' = IF mqtt_publish(client, connected) = "raise" THEN "halted" ELSE next_pc
    ELSE /\ alert' = alert
         /\ pc' = next_pc

(* Mutant of sensor_check_due: the period has to be exceeded. *)
sensor_check_due_strict == now - last_sensor_check > SENSOR_CHECK_PERIOD * TimeUnit

sensor_check_due == now - last_sensor_check >= SENSOR_CHECK_PERIOD * TimeUnit

(* Mutant of emergency_needed: smoke alone does not close the window. *)
emergency_needed_rain_only(rain, smoke) == rain

(* The safety check of check_sensors(): if rain_detected or smoke_detected. *)
emergency_needed(rain, smoke) == rain \/ smoke

(* Mutant of emergency_status: window_open is left as it was. *)
emergency_status_kept(status) == status

(* emergency_close(): system_status["window_open"] = False. *)
emergency_status(status) == [status EXCEPT !.window_open = FALSE]

(* Top of a tick when the sensor check is not due. *)
tick_no_check ==
    /\ pc = "poll"
    /\ ~sensor_check_due
    /\ pc' = "track"
    /\ last_op' = "no_check"
    /\ UNCHANGED <<now, last_sensor_check, polled, last_mqtt_publish, system_status,
                   integral_error, last_update_time, target_angle, ldr_values, dt,
                   current_panel_angle, window_state, motor, client, connected,
                   msg, status_data, alert, updates, arg>>

(* Top of a tick with check_sensors(): readings ldr, rainRaw, smokeRaw. *)
check_sensors(ldr, rainRaw, smokeRaw) ==
    LET rain == check_rain(rainRaw)
        smoke == check_smoke(smokeRaw)
        st == polled_status(system_status, ldr, rain, smoke, now)
    IN  /\ pc = "poll"
        /\ sensor_check_due
        /\ last_op' = "check_sensors"
        /\ polled' = [rain_value |-> rainRaw, smoke_value |-> smokeRaw,
                      cleared |-> /\ system_status.rain_detected
                                     \/ system_status.smoke_detected
                                  /\ ~(rain \/ smoke)]
        /\ IF emergency_needed(rain, smoke)
           THEN \* emergency_close()
                /\ system_status' = emergency_status(st)
                /\ IF window_is_closed
                   THEN /\ emergency_alert(st, "track")
                        /\ last_sensor_check' = now
                        /\ UNCHANGED <<window_state, motor>>
                   ELSE /\ close_window_begin
                        /\ pc' = "ec_moving"
                        /\ UNCHANGED <<alert, last_sensor_check>>
           ELSE /\ system_status' = st
                /\ pc' = "track"
                /\ last_sensor_check' = now
                /\ UNCHANGED <<window_state, motor, alert>>
        /\ UNCHANGED <<now, last_mqtt_publish, integral_error, last_update_time,
                       target_angle, ldr_values, dt, current_panel_angle, client,
                       connected, msg, status_data, updates, arg>>

(* The rest of emergency_close() once the closing motor run is over. *)
emergency_close_end ==
    /\ pc = "ec_moving"
    /\ close_window_end
    /\ emergency_alert(system_status, "track")
    /\ last_sensor_check' = now
    /\ last_op' = "emergency_close"
    /\ UNCHANGED <<now, last_mqtt_publish, system_status, integral_error,
                   last_update_time, target_angle, ldr_values, dt,
                   current_panel_angle, client, connected, msg, status_data, updates,
                   arg, polled>>

(* A sensor read raises inside check_sensors() or tracking.update(): nothing *)
(* in main_loop catches it, so it reaches the handler of __main__, which     *)
(* blinks the status LED forever.                                            *)
sensor_read_error ==
    /\ \/ pc = "poll" /\ sensor_check_due
       \/ pc = "track" /\ system_status.tracking_enabled /\ system_status.auto_mode
    /\ pc' = "halted"
    /\ last_op' = "sensor_read_error"
    /\ UNCHANGED <<now, last_sensor_check, polled, last_mqtt_publish,
                   system_status, integral_error, last_update_time, target_angle,
                   ldr_values, dt, current_panel_angle, window_state, motor, client,
                   connected, msg, status_data, alert, updates, arg>>

tracking_on == system_status.tracking_enabled /\ system_status.auto_mode

(* The tracking step of a tick when tracking is switched off. *)
tracking_off ==
    /\ pc = "track"
    /\ ~tracking_on
    /\ pc' = "publish"
    /\ last_op' = "tracking_off"
    /\ UNCHANGED <<now, last_sensor_check, polled, last_mqtt_publish,
                   system_status, integral_error, last_update_time, target_angle,
                   ldr_values, dt, current_panel_angle, window_state, motor, client,
                   connected, msg, status_data, alert, updates, arg>>

(* The tracking step of a tick: tracking.update() with readings ldr. *)
tracking_update(ldr) ==
    /\ pc = "track"
    /\ tracking_on
    /\ low_light(ldr) \/ updates < MaxUpdates
    /\ update(ldr)
    /\ pc' = "publish"
    /\ UNCHANGED <<now, last_sensor_check, polled, last_mqtt_publish, system_status,
                   window_state, motor, client, connected, msg, status_data, alert,
                   arg>>

(* The periodic status publication of a tick. *)
periodic_publish ==
    /\ pc = "publish"
    /\ IF now - last_mqtt_publish >= PUBLISH_PERIOD * TimeUnit /\ connected
       THEN /\ status_data' = publish_status(system_status)
            /\ IF mqtt_publish(client, connected) = "raise"
               THEN pc' = "halted" /\ UNCHANGED last_mqtt_publish
               ELSE pc' = "msgs" /\ last_mqtt_publish' = now
       ELSE /\ pc' = "msgs"
            /\ UNCHANGED <<status_data, last_mqtt_publish>>
    /\ last_op' = "periodic_publish"
    /\ UNCHANGED <<now, last_sensor_check, polled, system_status,
                   integral_error, last_update_time, target_angle, ldr_values, dt,
                   current_panel_angle, window_state, motor, client, connected,
                   msg, alert, updates, arg>>

(* The message-check step of a tick with nothing to hand over. *)
no_message ==
    /\ pc = "msgs"
    /\ pc' = IF connected /\ mqtt_check_msg(client, connected) = "raise"
             THEN "halted" ELSE "sleep"
    /\ last_op' = "no_message"
    /\ UNCHANGED <<now, last_sensor_check, polled, last_mqtt_publish,
                   system_status, integral_error, last_update_time, target_angle,
                   ldr_values, dt, current_panel_angle, window_state, motor, client,
                   connected, msg, status_data, alert, updates, arg>>

(* Mutant of deliver: a message is also taken in during a command's motor   *)
(* run.                                                                     *)
deliver_anytime(m) ==
    /\ pc \in {"msgs", "cmd_moving"}
    /\ msg' = m
    /\ pc' = "cmd"
    /\ last_op' = "deliver"
    /\ UNCHANGED <<now, last_sensor_check, polled, last_mqtt_publish,
                   system_status, integral_error, last_update_time, target_angle,
                   ldr_values, dt, current_panel_angle, window_state, motor, client,
                   connected, status_data, alert, updates, arg>>

(* The message-check step of a tick handing message m to command_callback. *)
deliver(m) ==
    /\ pc = "msgs"
    /\ msg' = m
    /\ pc' = "cmd"
    /\ last_op' = "deliver"
    /\ UNCHANGED <<now, last_sensor_check, polled, last_mqtt_publish,
                   system_status, integral_error, last_update_time, target_angle,
                   ldr_values, dt, current_panel_angle, window_state, motor, client,
                   connected, status_data, alert, updates, arg>>

(* Mutant of open_allowed: the guard forgets the smoke flag. *)
open_allowed_rain_only(status) == ~status.rain_detected

(* The guard on open_window in command_callback. *)
open_allowed(status) == ~(status.rain_detected \/ status.smoke_detected)

(* Mutant of command_branch: the last branch is a plain else. *)
command_branch_else_toggles(m, status) ==
    IF m.action = "open_window" /\ open_allowed(status) THEN "open_window"
    ELSE IF m.action = "close_window" THEN "close_window"
    ELSE IF m.action = "set_angle" /\ m.has_angle THEN "set_angle"
    ELSE IF m.action = "toggle_tracking" THEN "toggle_tracking"
    ELSE "toggle_auto"

(* The branch of command_callback's if/elif chain that message m takes. *)
command_branch(m, status) ==
    IF m.action = "open_window" /\ open_allowed(status) THEN "open_window"
    ELSE IF m.action = "close_window" THEN "close_window"
    ELSE IF m.action = "set_angle" /\ m.has_angle THEN "set_angle"
    ELSE IF m.action = "toggle_tracking" THEN "toggle_tracking"
    ELSE IF m.action = "toggle_auto" THEN "toggle_auto"
    ELSE "none"

(* angle = max(0, min(180, command["angle"])) *)
command_angle(a) == max2(CMD_MIN_ANGLE * AngleUnit, min2(CMD_MAX_ANGLE * AngleUnit, a))

(* command_callback(topic, message) on the message in msg, up to the motor  *)
(* run of an open or close.  Everything is inside its try: an unparseable   *)
(* message or a non-numeric angle raises and is swallowed, and so is an     *)
(* exception of the publish at the end.                                     *)
command_callback ==
    /\ pc = "cmd"
    /\ last_op' = msg.action
    /\ IF ~msg.parses \/ ~msg.has_action
       THEN /\ pc' = "sleep"
            /\ msg' = NoMsg
            /\ UNCHANGED <<system_status, window_state, motor, current_panel_angle,
                           now, status_data>>
       ELSE LET b == command_branch(msg, system_status) IN
            IF b = "open_window"
            THEN /\ system_status' = [system_status EXCEPT !.window_open = TRUE]
                 /\ IF window_is_open
                    THEN /\ status_data' = publish_status(system_status')
                         /\ pc' = "sleep"
                         /\ msg' = NoMsg
                         /\ UNCHANGED <<window_state, motor, now>>
                    ELSE /\ open_window_begin
                         /\ pc' = "cmd_moving"
                         /\ UNCHANGED <<msg, status_data, now>>
                 /\ UNCHANGED current_panel_angle
            ELSE IF b = "close_window"
            THEN /\ system_status' = [system_status EXCEPT !.window_open = FALSE]
                 /\ IF window_is_closed
                    THEN /\ status_data' = publish_status(system_status')
                         /\ pc' = "sleep"
                         /\ msg' = NoMsg
                         /\ UNCHANGED <<window_state, motor, now>>
                    ELSE /\ close_window_begin
                         /\ pc' = "cmd_moving"
                         /\ UNCHANGED <<msg, status_data, now>>
                 /\ UNCHANGED current_panel_angle
            ELSE IF b = "set_angle"
            THEN IF ~msg.numeric
                 THEN /\ pc' = "sleep"
                      /\ msg' = NoMsg
                      /\ UNCHANGED <<system_status, window_state, motor,
                                     current_panel_angle, now, status_data>>
                 ELSE /\ system_status' =
                            [system_status EXCEPT !.panel_angle = command_angle(msg.angle)]
                      /\ set_panel_angle(command_angle(msg.angle))
                      /\ status_data' = publish_status(system_status')
                      /\ pc' = "sleep"
                      /\ msg' = NoMsg
                      /\ UNCHANGED <<window_state, motor, now>>
            ELSE /\ system_status' =
                       IF b = "toggle_tracking"
                       THEN [system_status EXCEPT !.tracking_enabled = ~@]
                       ELSE IF b = "toggle_auto"
                       THEN [system_status EXCEPT !.auto_mode = ~@]
                       ELSE system_status
                 /\ status_data' = publish_status(system_status')
                 /\ pc' = "sleep"
                 /\ msg' = NoMsg
                 /\ UNCHANGED <<window_state, motor, current_panel_angle, now>>
    /\ UNCHANGED <<last_sensor_check, polled, last_mqtt_publish, integral_error,
                   last_update_time, target_angle, ldr_values, dt, client, connected,
                   alert, updates, arg>>

(* command_callback from the end of the motor run of its open or close: the *)
(* actuator call returns and publish_status() runs.                         *)
command_callback_end ==
    /\ pc = "cmd_moving"
    /\ IF msg.action = "open_window" THEN open_window_end ELSE close_window_end
    /\ status_data' = publish_status(system_status)
    /\ pc' = "sleep"
    /\ msg' = NoMsg
    /\ last_op' = msg.action
    /\ UNCHANGED <<now, last_sensor_check, polled, last_mqtt_publish, system_status,
                   integral_error, last_update_time, target_angle, ldr_values, dt,
                   current_panel_angle, client, connected, alert, updates, arg>>

(* The end of a tick: time.sleep(0.1), and the next reading of the clock.   *)
(* The time the tick's blocking calls took is part of the advance.  What   *)
(* the tick handed to mqtt.publish and the locals of update() are gone.    *)
tick_sleep ==
    /\ pc = "sleep"
    /\ now' \in NextTimes
    /\ pc' = "poll"
    /\ last_op' = "tick_sleep"
    /\ status_data' = NoStatus
    /\ alert' = "none"
    /\ ldr_values' = <<0, 0>>
    /\ dt' = 0
    /\ UNCHANGED <<last_sensor_check, polled, last_mqtt_publish, system_status,
                   integral_error, last_update_time, target_angle,
                   current_panel_angle, window_state, motor, client, connected,
                   msg, updates, arg>>

Next ==
    \/ \E wifiOk \in BOOLEAN, brokerOk \in BOOLEAN : initialize_system(wifiOk, brokerOk)
    \/ tick_no_check
    \/ \E ldr \in PollLight, r \in RainRaw, s \in SmokeRaw : check_sensors(ldr, r, s)
    \/ emergency_close_end
    \/ sensor_read_error
    \/ tracking_off
    \/ \E ldr \in LightPairs : tracking_update(ldr)
    \/ periodic_publish
    \/ no_message
    \/ \E m \in Messages : deliver(m)
    \/ command_callback
    \/ command_callback_end
    \/ tick_sleep

Spec == Init /\ [][Next]_vars


----------------------------------------------------------------------------
(* The functions of tracking.py and actuators.py called directly, in any    *)
(* order and with any argument, each call running to completion, and the    *)
(* clock free to jump between calls; set_angle commands go through          *)
(* command_callback.                                                        *)

InitApi ==
    /\ pc = "api"
    /\ now = 0
    /\ last_sensor_check = 0
    /\ last_mqtt_publish = 0
    /\ system_status = [window_open |-> FALSE, tracking_enabled |-> TRUE,
                        panel_angle |-> DEFAULT_ANGLE * AngleUnit, light_level |-> 0,
                        rain_detected |-> FALSE, smoke_detected |-> FALSE,
                        last_update |-> 0, auto_mode |-> TRUE]
    /\ integral_error = 0
    /\ last_update_time = 0
    /\ target_angle = DEFAULT_ANGLE * AngleUnit
    /\ ldr_values = <<0, 0>>
    /\ dt = 0
    /\ current_panel_angle = DEFAULT_ANGLE * AngleUnit
    /\ window_state = "closed"
    /\ motor = MotorStopped
    /\ client = FALSE
    /\ connected = FALSE
    /\ msg = NoMsg
    /\ status_data = NoStatus
    /\ alert = "none"
    /\ last_op = "none"
    /\ updates = 0
    /\ arg = 0
    /\ polled = NoPoll

(* time.time() reads t from now on. *)
api_clock(t) ==
    /\ pc = "api"
    /\ t # now
    /\ now' = t
    /\ last_op' = "clock"
    /\ arg' = 0
    /\ UNCHANGED <<pc, last_sensor_check, polled, last_mqtt_publish, system_status,
                   integral_error, last_update_time, target_angle, ldr_values, dt,
                   current_panel_angle, window_state, motor, client, connected,
                   msg, status_data, alert, updates>>

api_update(ldr) ==
    /\ pc = "api"
    /\ low_light(ldr) \/ updates < MaxApiUpdates
    /\ update(ldr)
    /\ arg' = 0
    /\ UNCHANGED <<pc, now, last_sensor_check, polled, last_mqtt_publish, system_status,
                   window_state, motor, client, connected, msg, status_data, alert>>

api_reset ==
    /\ pc = "api"
    /\ reset
    /\ last_op' = "reset"
    /\ arg' = 0
    /\ UNCHANGED <<pc, now, last_sensor_check, polled, last_mqtt_publish, system_status,
                   last_update_time, ldr_values, dt, window_state, motor, client,
                   connected, msg, status_data, alert, updates>>

api_set_angle(a) ==
    /\ pc = "api"
    /\ set_angle(a)
    /\ last_op' = "set_angle"
    /\ arg' = a
    /\ UNCHANGED <<pc, now, last_sensor_check, polled, last_mqtt_publish, system_status,
                   last_update_time, ldr_values, dt, window_state, motor, client,
                   connected, msg, status_data, alert, updates>>

api_set_panel_angle(a) ==
    /\ pc = "api"
    /\ set_panel_angle(a)
    /\ last_op' = "set_panel_angle"
    /\ arg' = a
    /\ UNCHANGED <<pc, now, last_sensor_check, polled, last_mqtt_publish, system_status,
                   integral_error, last_update_time, target_angle, ldr_values, dt,
                   window_state, motor, client, connected, msg, status_data, alert,
                   updates>>

(* A set_angle command handed to command_callback. *)
api_deliver(m) ==
    /\ pc = "api"
    /\ m.action = "set_angle"
    /\ msg' = m
    /\ pc' = "cmd"
    /\ last_op' = "deliver"
    /\ arg' = 0
    /\ UNCHANGED <<now, last_sensor_check, polled, last_mqtt_publish, system_status,
                   integral_error, last_update_time, target_angle, ldr_values, dt,
                   current_panel_angle, window_state, motor, client, connected,
                   status_data, alert, updates>>

(* command_callback has returned. *)
api_return ==
    /\ pc = "sleep"
    /\ pc' = "api"
    /\ status_data' = NoStatus
    /\ UNCHANGED <<now, last_sensor_check, polled, last_mqtt_publish, system_status,
                   integral_error, last_update_time, target_angle, ldr_values, dt,
                   current_panel_angle, window_state, motor, client, connected,
                   msg, alert, last_op, updates, arg>>

NextApi ==
    \/ \E t \in ApiTimes : api_clock(t)
    \/ \E ldr \in ApiLightPairs : api_update(ldr)
    \/ api_reset
    \/ \E a \in ApiAngles : api_set_angle(a)
    \/ \E a \in ApiAngles : api_set_panel_angle(a)
    \/ \E m \in Messages : api_deliver(m)
    \/ command_callback
    \/ api_return

SpecApi == InitApi /\ [][NextApi]_vars

----------------------------------------------------------------------------
(* The functions of actuators.py called directly, in any order, an          *)
(* open_window or close_window blocking its caller for the motor run (pc    *)
(* "act_opening", "act_closing"); emergency_stop is the one call that may   *)
(* come while a motor run is in progress.                                   *)

InitAct ==
    /\ pc = "act"
    /\ now = 0
    /\ last_sensor_check = 0
    /\ last_mqtt_publish = 0
    /\ system_status = [window_open |-> FALSE, tracking_enabled |-> TRUE,
                        panel_angle |-> DEFAULT_ANGLE * AngleUnit, light_level |-> 0,
                        rain_detected |-> FALSE, smoke_detected |-> FALSE,
                        last_update |-> 0, auto_mode |-> TRUE]
    /\ integral_error = 0
    /\ last_update_time = 0
    /\ target_angle = DEFAULT_ANGLE * AngleUnit
    /\ ldr_values = <<0, 0>>
    /\ dt = 0
    /\ current_panel_angle = DEFAULT_ANGLE * AngleUnit
    /\ window_state = "closed"
    /\ motor = MotorStopped
    /\ client = FALSE
    /\ connected = FALSE
    /\ msg = NoMsg
    /\ status_data = NoStatus
    /\ alert = "none"
    /\ last_op = "none"
    /\ updates = 0
    /\ arg = 0
    /\ polled = NoPoll

(* actuators.open_window(), up to its return or its motor run. *)
act_open_window ==
    /\ pc = "act"
    /\ last_op' = "open_window"
    /\ IF window_is_open
       THEN UNCHANGED <<window_state, motor, pc>>
       ELSE open_window_begin /\ pc' = "act_opening"
    /\ UNCHANGED <<now, last_sensor_check, polled, last_mqtt_publish, system_status,
                   integral_error, last_update_time, target_angle, ldr_values, dt,
                   current_panel_angle, client, connected, msg, status_data, alert,
                   updates, arg>>

(* actuators.open_window() from the end of its motor run. *)
act_open_window_end ==
    /\ pc = "act_opening"
    /\ open_window_end
    /\ pc' = "act"
    /\ last_op' = "open_window_end"
    /\ UNCHANGED <<now, last_sensor_check, polled, last_mqtt_publish, system_status,
                   integral_error, last_update_time, target_angle, ldr_values, dt,
                   current_panel_angle, client, connected, msg, status_data, alert,
                   updates, arg>>

(* actuators.close_window(), up to its return or its motor run. *)
act_close_window ==
    /\ pc = "act"
    /\ last_op' = "close_window"
    /\ IF window_is_closed
       THEN UNCHANGED <<window_state, motor, pc>>
       ELSE close_window_begin /\ pc' = "act_closing"
    /\ UNCHANGED <<now, last_sensor_check, polled, last_mqtt_publish, system_status,
                   integral_error, last_update_time, target_angle, ldr_values, dt,
                   current_panel_angle, client, connected, msg, status_data, alert,
                   updates, arg>>

(* actuators.close_window() from the end of its motor run. *)
act_close_window_end ==
    /\ pc = "act_closing"
    /\ close_window_end
    /\ pc' = "act"
    /\ last_op' = "close_window_end"
    /\ UNCHANGED <<now, last_sensor_check, polled, last_mqtt_publish, system_status,
                   integral_error, last_update_time, target_angle, ldr_values, dt,
                   current_panel_angle, client, connected, msg, status_data, alert,
                   updates, arg>>

(* actuators.emergency_stop(), between calls or during a motor run. *)
act_emergency_stop ==
    /\ pc \in {"act", "act_opening", "act_closing"}
    /\ emergency_stop
    /\ last_op' = "emergency_stop"
    /\ UNCHANGED <<pc, now, last_sensor_check, polled, last_mqtt_publish, system_status,
                   integral_error, last_update_time, target_angle, ldr_values, dt,
                   current_panel_angle, window_state, client, connected, msg,
                   status_data, alert, updates, arg>>

(* actuators.set_panel_angle(a) *)
act_set_panel_angle(a) ==
    /\ pc = "act"
    /\ set_panel_angle(a)
    /\ last_op' = "set_panel_angle"
    /\ arg' = a
    /\ UNCHANGED <<pc, now, last_sensor_check, polled, last_mqtt_publish, system_status,
                   integral_error, last_update_time, target_angle, ldr_values, dt,
                   window_state, motor, client, connected, msg, status_data, alert,
                   updates>>

NextAct ==
    \/ act_open_window
    \/ act_open_window_end
    \/ act_close_window
    \/ act_close_window_end
    \/ act_emergency_stop
    \/ \E a \in ActAngles : act_set_panel_angle(a)

SpecAct == InitAct /\ [][NextAct]_vars

----------------------------------------------------------------------------
(* Properties. *)

(* clamp(x, lo, hi) as the specification means it. *)
Clamp(lo, hi, x) == IF x < lo THEN lo ELSE IF x > hi THEN hi ELSE x

MinAngle == MIN_PANEL_ANGLE * AngleUnit
MaxAngle == MAX_PANEL_ANGLE * AngleUnit
IntegralLimit == MAX_INTEGRAL * IntUnit

SafetyActive == system_status.rain_detected \/ system_status.smoke_detected

(* C1: safety precedence.  While the polled rain_detected or smoke_detected *)
(* flag is true, the step that processes an open_window command leaves      *)
(* window_state and window_open as they were and does not start the motor,  *)
(* and a close_window command processed in such a state ends with           *)
(* window_state "closed".                                                   *)
C1_SafetyPrecedence ==
    [][/\ (pc = "cmd" /\ msg.parses /\ msg.has_action
             /\ msg.action = "open_window" /\ SafetyActive)
          => /\ window_state' = window_state
             /\ window_state' # "open"
             /\ system_status'.window_open = system_status.window_open
             /\ motor' = motor
             /\ pc' = "sleep"
       /\ (pc \in {"cmd", "cmd_moving"} /\ msg.parses /\ msg.has_action
             /\ msg.action = "close_window" /\ SafetyActive /\ pc' = "sleep")
          => window_state' = "closed"]_vars

(* C1 witness: an open_window command has just been processed while rain or *)
(* smoke was flagged, and the window is still closed.                       *)
C1_Witness ==
    /\ last_op = "open_window"
    /\ pc = "sleep"
    /\ SafetyActive
    /\ window_state = "closed"
    /\ ~system_status.window_open
    /\ status_data.built

(* C2: tie-break.  After a sensor poll that found rain or smoke and forced  *)
(* a close, the reason the alert of that forced close carries is "smoke"    *)
(* whenever smoke was found, and "rain" only with rain and no smoke.        *)
C2_TieBreak ==
    (last_op \in {"check_sensors", "emergency_close"} /\ pc = "track" /\ SafetyActive)
    => alert_reason(system_status) =
           (IF system_status.smoke_detected THEN "smoke" ELSE "rain")

(* C3: tracking suspended under a safety override.  At the tracking step of *)
(* a tick whose latest poll reported rain or smoke, target_angle,           *)
(* integral_error and the commanded angle are left unchanged.               *)
C3_TrackingSuspended ==
    [][(pc = "track" /\ SafetyActive)
       => UNCHANGED <<target_angle, integral_error, current_panel_angle>>]_vars

(* C4: no automatic reopening.  The window leaves "closed" only in the step *)
(* of command_callback that processes an open_window command, reaches       *)
(* "open" only at the end of that command's motor run, and a sensor poll    *)
(* that finds the window closed leaves it closed.                           *)
C4_NoAutoReopen ==
    [][/\ (window_state = "closed" /\ window_state' # "closed")
          => (pc = "cmd" /\ msg.action = "open_window" /\ motor' = MotorOpening)
       /\ (window_state # "open" /\ window_state' = "open")
          => (pc = "cmd_moving" /\ msg.action = "open_window")
       /\ (pc = "poll" /\ window_state = "closed")
          => window_state' = "closed"]_vars

(* C4 witness: a poll later than the first has read rain and smoke clear    *)
(* and has left the closed window closed.                                   *)
C4_Witness ==
    /\ last_op = "check_sensors"
    /\ pc = "track"
    /\ ~SafetyActive
    /\ window_state = "closed"
    /\ ~system_status.window_open
    /\ last_sensor_check > StartTime

(* C5: the control loop never halts: no failure inside a tick ends          *)
(* main_loop.                                                               *)
C5_LoopNeverHalts == pc # "halted"

(* C6: range invariant.  After any sequence of update, reset, set_angle,    *)
(* set_panel_angle and set_angle commands, target_angle and the commanded   *)
(* angle are within [MIN_PANEL_ANGLE, MAX_PANEL_ANGLE] and integral_error   *)
(* is within [-MAX_INTEGRAL, MAX_INTEGRAL].                                 *)
C6_RangeInvariant ==
    /\ MinAngle <= target_angle /\ target_angle <= MaxAngle
    /\ MinAngle <= current_panel_angle /\ current_panel_angle <= MaxAngle
    /\ 0 - IntegralLimit <= integral_error /\ integral_error <= IntegralLimit

(* C6 witness: an update has just driven the integral to its limit and the  *)
(* target to the end of the range.                                          *)
C6_Witness ==
    /\ last_op = "update"
    /\ integral_error = IntegralLimit
    /\ target_angle = MaxAngle
    /\ current_panel_angle = MaxAngle

(* C7: a set_angle command is a manual set of the tracking controller: the  *)
(* step that processes it leaves target_angle at the clamped angle, equal   *)
(* to the new commanded angle, and integral_error at 0.                     *)
C7_ManualSetResetsTracking ==
    [][(pc = "cmd" /\ msg.parses /\ msg.has_action /\ msg.action = "set_angle"
          /\ msg.has_angle /\ msg.numeric)
       => /\ target_angle' = Clamp(MinAngle, MaxAngle, msg.angle)
          /\ target_angle' = current_panel_angle'
          /\ integral_error' = 0]_vars

(* C8: the published status is a snapshot of the actuator: the panel_angle  *)
(* of the record publish_status builds is the commanded angle.              *)
C8_StatusSnapshot ==
    status_data.built => status_data.panel_angle = current_panel_angle

(* C9: set_panel_angle(a) ends with the commanded angle equal to            *)
(* clamp(a, MIN_PANEL_ANGLE, MAX_PANEL_ANGLE), for a below, inside and      *)
(* above the range.                                                         *)
C9_SetPanelAngleClamps ==
    last_op = "set_panel_angle"
    => current_panel_angle = Clamp(MinAngle, MaxAngle, arg)

(* C9 witness: set_panel_angle was called with an angle above the range and *)
(* the commanded angle is the maximum.                                      *)
C9_Witness ==
    /\ last_op = "set_panel_angle"
    /\ arg > MaxAngle
    /\ current_panel_angle = MaxAngle

(* C10: the PI step.  A non-skipped update with readings a, b and elapsed   *)
(* time dt (as multiplied in) gives                                         *)
(*   integral_error' = clamp(integral_error + (a - b)*dt, +-MAX_INTEGRAL)   *)
(*   target_angle'   = clamp(target_angle + (P_GAIN*(a - b)                 *)
(*                     + I_GAIN*integral_error') * ANGLE_SCALING_FACTOR,    *)
(*                     MIN_PANEL_ANGLE, MAX_PANEL_ANGLE)                    *)
(* and with a = 500, b = 300, dt = 1 s, integral_error = 0 and              *)
(* target_angle = 90 the new target is above 90 and at most 180.            *)
C10_PIUpdateStep ==
    [][(last_op' = "update" /\ updates' = updates + 1)
       => LET e == ldr_values'[1] - ldr_values'[2]
              i == Clamp(0 - IntegralLimit, IntegralLimit, integral_error + e * dt')
              c == P_GAIN * e * IntUnit + I_GAIN * i
          IN  /\ integral_error' = i
              /\ target_angle' =
                     Clamp(MinAngle, MaxAngle,
                           target_angle + c * ANGLE_SCALING_FACTOR_HUNDREDTHS)
              /\ (/\ ldr_values' = <<500, 300>>
                  /\ dt' = TimeUnit
                  /\ integral_error = 0
                  /\ target_angle = DEFAULT_ANGLE * AngleUnit)
                 => (/\ target_angle' > DEFAULT_ANGLE * AngleUnit
                     /\ target_angle' <= MAX_PANEL_ANGLE * AngleUnit)]_vars

(* C10 witness: the first update ever, with readings 500 and 300 one second *)
(* after the previous update time, has moved the target above 90.           *)
C10_Witness ==
    /\ last_op = "update"
    /\ updates = 1
    /\ ldr_values = <<500, 300>>
    /\ dt = TimeUnit
    /\ integral_error = IntegralLimit
    /\ target_angle > DEFAULT_ANGLE * AngleUnit
    /\ target_angle <= MAX_PANEL_ANGLE * AngleUnit

(* C11: integral anti-windup.  Every non-skipped update whose error is      *)
(* positive leaves integral_error at most MAX_INTEGRAL, and either exactly  *)
(* MAX_INTEGRAL or larger than before by at least error * 0.01 (so a run of *)
(* such updates reaches MAX_INTEGRAL after finitely many of them); once     *)
(* integral_error is MAX_INTEGRAL such an update leaves it there.           *)
C11_AntiWindup ==
    [][(pc = "api" /\ last_op' = "update" /\ updates' = updates + 1
          /\ ldr_error(ldr_values') > 0)
       => /\ integral_error' <= IntegralLimit
          /\ \/ integral_error' = IntegralLimit
             \/ integral_error' >= integral_error + ldr_error(ldr_values') * DT_FLOOR_CS
          /\ integral_error = IntegralLimit => integral_error' = IntegralLimit]_vars

(* C11 witness: the second of two updates, with error 200 and the smallest  *)
(* dt, has left integral_error at MAX_INTEGRAL, where the first had put it. *)
C11_Witness ==
    /\ last_op = "update"
    /\ updates = 2
    /\ ldr_values = <<500, 300>>
    /\ dt = DT_FLOOR_CS
    /\ integral_error = IntegralLimit

(* C12: no drift when balanced.  A call of update whose two readings are    *)
(* equal, skipped or not and whatever the elapsed time, leaves              *)
(* integral_error as it was.                                                *)
C12_NoDriftBalanced ==
    [][(pc = "api" /\ last_op' \in {"update", "update_skipped"}
          /\ ldr_values'[1] = ldr_values'[2])
       => integral_error' = integral_error]_vars

(* C12 witness: a non-skipped update with equal readings, one second after  *)
(* the previous update, has kept a non-zero integral_error below the limit. *)
C12_Witness ==
    /\ last_op = "update"
    /\ updates = 2
    /\ ldr_values = <<300, 300>>
    /\ dt = TimeUnit
    /\ integral_error > 0
    /\ integral_error < IntegralLimit

(* C13: low-light skip.  A call of update whose larger reading is below     *)
(* MIN_LIGHT_THRESHOLD leaves target_angle, integral_error,                 *)
(* last_update_time and the commanded angle unchanged.                      *)
C13_LowLightSkip ==
    [][(pc = "api" /\ last_op' \in {"update", "update_skipped"}
          /\ max2(ldr_values'[1], ldr_values'[2]) < MIN_LIGHT_THRESHOLD)
       => /\ last_op' = "update_skipped"
          /\ UNCHANGED <<target_angle, integral_error, last_update_time,
                         current_panel_angle, updates>>]_vars

(* C13 witness: update was skipped on readings 100/100 after an earlier     *)
(* update had moved the target, with time having passed since.              *)
C13_Witness ==
    /\ last_op = "update_skipped"
    /\ ldr_values = <<100, 100>>
    /\ updates >= 1
    /\ last_update_time < now
    /\ integral_error # 0
    /\ target_angle # DEFAULT_ANGLE * AngleUnit

(* C14: idempotence of the window commands.  open_window called with the    *)
(* window "open", and close_window called with it "closed", return at once: *)
(* window_state and the three motor outputs are unchanged and no motor run  *)
(* (no "moving") is started.                                                *)
C14_WindowIdempotent ==
    [][/\ (pc = "act" /\ last_op' = "open_window" /\ window_state = "open")
          => (window_state' = "open" /\ motor' = motor /\ pc' = "act")
       /\ (pc = "act" /\ last_op' = "close_window" /\ window_state = "closed")
          => (window_state' = "closed" /\ motor' = motor /\ pc' = "act")]_vars

(* C14 witness: open_window has returned without a motor run, the window    *)
(* being open already.                                                      *)
C14_Witness ==
    /\ last_op = "open_window"
    /\ pc = "act"
    /\ window_state = "open"
    /\ motor = MotorStopped

(* C15: the window state machine.  window_state starts "closed"; it changes *)
(* only closed -> moving (open_window, motor opening), moving -> open at    *)
(* the end of that motor run, open -> moving (close_window, motor closing)  *)
(* and moving -> closed at the end of that run; and it is "moving" exactly  *)
(* while a motor run is in progress, so "open" or "closed" everywhere else  *)
(* in a tick.                                                               *)
C15_WindowStateMachine ==
    /\ window_state = "closed"
    /\ [][window_state' # window_state
          => \/ /\ window_state = "closed" /\ window_state' = "moving"
                /\ motor' = MotorOpening
                /\ pc = "cmd" /\ msg.action = "open_window"
             \/ /\ window_state = "moving" /\ window_state' = "open"
                /\ motor = MotorOpening /\ motor' = MotorStopped
             \/ /\ window_state = "open" /\ window_state' = "moving"
                /\ motor' = MotorClosing
                /\ \/ pc = "cmd" /\ msg.action = "close_window"
                   \/ pc = "poll"
             \/ /\ window_state = "moving" /\ window_state' = "closed"
                /\ motor = MotorClosing /\ motor' = MotorStopped]_vars
    /\ [](window_state = "moving" <=> pc \in {"ec_moving", "cmd_moving"})

(* C15 witness: the closing motor run of a close_window command is in       *)
(* progress, on a window that an earlier open_window command had opened.    *)
C15_Witness ==
    /\ pc = "cmd_moving"
    /\ msg.action = "close_window"
    /\ window_state = "moving"
    /\ motor = MotorClosing

(* C16: emergency_stop, between calls or during a motor run, leaves both    *)
(* direction outputs low and the enable output off, and leaves window_state *)
(* and the commanded angle as they were.                                    *)
C16_EmergencyStop ==
    [][(pc \in {"act", "act_opening", "act_closing"} /\ last_op' = "emergency_stop")
       => /\ motor' = [pin1 |-> 0, pin2 |-> 0, enable |-> 0]
          /\ UNCHANGED <<window_state, current_panel_angle>>]_vars

(* C16 witness: emergency_stop came during the motor run of open_window,    *)
(* with the panel at 180: the motor is off and the label is still "moving". *)
C16_Witness ==
    /\ last_op = "emergency_stop"
    /\ pc = "act_opening"
    /\ window_state = "moving"
    /\ motor = MotorStopped
    /\ current_panel_angle = MaxAngle

(* A payload that carries no command: unparseable, without an action, with  *)
(* an action that is none of the five, or a set_angle without an angle or   *)
(* with an angle that is not a number.                                      *)
InvalidPayload(m) ==
    \/ ~m.parses
    \/ ~m.has_action
    \/ m.action \notin {"open_window", "close_window", "set_angle",
                        "toggle_tracking", "toggle_auto"}
    \/ m.action = "set_angle" /\ (~m.has_angle \/ ~m.numeric)

(* C17: an invalid payload is rejected with no state change.  The step of   *)
(* command_callback on such a payload leaves window_state, the motor, the   *)
(* commanded angle and all of system_status (tracking_enabled, auto_mode,   *)
(* window_open, panel_angle) unchanged, and returns to the loop.            *)
C17_InvalidRejected ==
    [][(pc = "cmd" /\ InvalidPayload(msg))
       => /\ UNCHANGED <<window_state, motor, current_panel_angle, system_status,
                         target_angle, integral_error>>
          /\ pc' = "sleep"]_vars

(* C17 witness: a message with an unknown action has been handled with the *)
(* window open and the panel away from its default, and the loop goes on.   *)
C17_Witness ==
    /\ last_op = "unknown"
    /\ pc = "sleep"
    /\ window_state = "open"
    /\ system_status.window_open
    /\ current_panel_angle # DEFAULT_ANGLE * AngleUnit

(* A payload whose command command_callback carries out. *)
ProcessedCommand(m, status) ==
    /\ ~InvalidPayload(m)
    /\ m.action = "open_window" => ~(status.rain_detected \/ status.smoke_detected)

(* C18: every processed command is followed, before the tick goes on, by a  *)
(* status publication that reflects the state after the command: when       *)
(* command_callback returns, the status record has been built, mqtt.publish *)
(* has sent it, and its fields are the state the command left.              *)
C18_CommandThenStatus ==
    [][(pc \in {"cmd", "cmd_moving"} /\ ProcessedCommand(msg, system_status)
          /\ pc' = "sleep")
       => /\ status_data'.built
          /\ status_data'.result = "true"
          /\ status_data'.window_open = (window_state' = "open")
          /\ status_data'.panel_angle = current_panel_angle'
          /\ status_data'.tracking_enabled = system_status'.tracking_enabled
          /\ status_data'.auto_mode = system_status'.auto_mode]_vars

(* C19: a network send failure is contained: no call of mqtt.publish ends   *)
(* in an exception (it returns True or False).                              *)
C19_PublishContained ==
    status_data.result # "raise"

(* C20: normal operation resumes once the safety condition clears.  Every   *)
(* sensor poll sets rain_detected and smoke_detected from its own readings, *)
(* whatever they were before, so a poll that reads neither leaves both      *)
(* false; and an open_window command processed while both are false is      *)
(* accepted and ends with window_state "open".                              *)
C20_ResumeAfterClear ==
    [][/\ (pc = "poll" /\ last_op' = "check_sensors")
          => /\ system_status'.rain_detected = (polled'.rain_value < rain_threshold)
             /\ system_status'.smoke_detected = (polled'.smoke_value > smoke_threshold)
       /\ (pc = "cmd" /\ ~InvalidPayload(msg) /\ msg.action = "open_window"
             /\ ~SafetyActive)
          => /\ system_status'.window_open
             /\ IF window_state = "open"
                THEN window_state' = "open" /\ pc' = "sleep"
                ELSE /\ window_state' = "moving"
                     /\ motor' = MotorOpening
                     /\ pc' = "cmd_moving"
       /\ (pc = "cmd_moving" /\ msg.action = "open_window")
          => (window_state' = "open" /\ pc' = "sleep")]_vars

(* C20 witness: the latest poll read no rain and no smoke and so cleared a  *)
(* flag that an earlier poll had set, and an open_window command processed  *)
(* after it has ended with the window open.                                 *)
C20_Witness ==
    /\ last_op = "open_window"
    /\ pc = "sleep"
    /\ polled.cleared
    /\ polled.rain_value >= rain_threshold
    /\ polled.smoke_value <= smoke_threshold
    /\ ~SafetyActive
    /\ window_state = "open"
    /\ system_status.window_open

(* C21: the dt floor.  In every non-skipped update the elapsed time that is *)
(* multiplied into the integral term is the measured time if that is at     *)
(* least 0.01 s and 0.01 s otherwise, also when the clock stood still or    *)
(* went backwards since the previous update.                                *)
C21_DtFloor ==
    [][(pc = "api" /\ last_op' = "update" /\ updates' = updates + 1)
       => LET measured == now - last_update_time
              used == IF measured < DT_FLOOR_CS THEN DT_FLOOR_CS ELSE measured
          IN  /\ dt' = used
              /\ dt' >= DT_FLOOR_CS
              /\ integral_error' =
                     Clamp(0 - IntegralLimit, IntegralLimit,
                           integral_error
                             + (ldr_values'[1] - ldr_values'[2]) * used)]_vars

(* C21 witness: a first update with error 1 one second after time 0, then  *)
(* the clock set back to 0 and a second update with error 1: the second     *)
(* added 0.01 to the integral, which is 1.01.                               *)
C21_Witness ==
    /\ last_op = "update"
    /\ updates = 2
    /\ ldr_values = <<300, 299>>
    /\ now = 0
    /\ last_update_time = 0
    /\ dt = DT_FLOOR_CS
    /\ integral_error = TimeUnit + DT_FLOOR_CS

(* C22: the safety invariant at rest.  Wherever the loop is outside the     *)
(* motor run of a forced close, and so at every tick boundary, a true       *)
(* rain_detected or smoke_detected flag means that window_state is          *)
(* "closed".                                                                *)
C22_SafetyAtRest ==
    (SafetyActive /\ pc # "ec_moving") => window_state = "closed"

(* C22 witness: a tick boundary, after a poll later than the first, with    *)
(* both flags set and the window closed.                                    *)
C22_Witness ==
    /\ pc = "poll"
    /\ last_op = "tick_sleep"
    /\ system_status.rain_detected
    /\ system_status.smoke_detected
    /\ last_sensor_check > StartTime
    /\ window_state = "closed"

(* C23: bounded response to a safety condition.  A tick that starts with at *)
(* least 2 s of clock time since the last poll polls the sensors (unless a  *)
(* read fails); a poll that reads rain or smoke closes the window before    *)
(* the tick goes on to tracking; and a closed window stays closed as long   *)
(* as a flag stays set.                                                     *)
C23_BoundedResponse ==
    [][/\ (pc = "poll" /\ now - last_sensor_check >= SENSOR_CHECK_PERIOD * TimeUnit
             /\ pc' # "halted")
          => last_op' = "check_sensors"
       /\ (pc = "poll" /\ last_op' = "check_sensors"
             /\ (polled'.rain_value < rain_threshold
                   \/ polled'.smoke_value > smoke_threshold))
          => \/ window_state' = "closed" /\ motor' = MotorStopped /\ pc' = "track"
             \/ window_state' = "moving" /\ motor' = MotorClosing /\ pc' = "ec_moving"
       /\ (pc = "ec_moving")
          => (window_state' = "closed" /\ motor' = MotorStopped /\ pc' \in {"track", "halted"})
       /\ (SafetyActive /\ SafetyActive' /\ window_state = "closed")
          => window_state' = "closed"]_vars

(* C23 witness: the closing motor run of a forced close has just ended: a   *)
(* flag is set, the window that was open is closed, and the tick goes on.   *)
C23_Witness ==
    /\ last_op = "emergency_close"
    /\ pc = "track"
    /\ SafetyActive
    /\ window_state = "closed"
    /\ motor = MotorStopped
    /\ last_sensor_check = now

(* C24: actuation is atomic with respect to the loop.  While window_state   *)
(* is "moving" the only thing that happens is the end of that motor run: no *)
(* poll (flags and readings unchanged), no tracking update, no change of    *)
(* the commanded angle and no new command; and a command is taken in only   *)
(* at the message-check step of a tick.                                     *)
C24_ActuationAtomic ==
    [][/\ window_state = "moving"
          => /\ pc \in {"ec_moving", "cmd_moving"}
             /\ window_state' \in {"open", "closed"}
             /\ pc' \in {"track", "sleep", "halted"}
             /\ UNCHANGED <<polled, system_status, target_angle, integral_error,
                            last_update_time, current_panel_angle, updates>>
             /\ msg' \in {msg, NoMsg}
       /\ (msg' # msg /\ msg' # NoMsg) => (pc = "msgs" /\ pc' = "cmd")]_vars

(* C24 witness: the closing motor run of a forced close is in progress,     *)
(* with a flag set.                                                         *)
C24_Witness ==
    /\ pc = "ec_moving"
    /\ window_state = "moving"
    /\ motor = MotorClosing
    /\ SafetyActive
    /\ ~system_status.window_open

(* C25: the reported window flag matches the actuator.  Outside a motor     *)
(* run, and so at every tick boundary, system_status window_open is true    *)
(* exactly when window_state is "open".                                     *)
C25_WindowFlagMatches ==
    (pc \notin {"ec_moving", "cmd_moving"})
    => (system_status.window_open <=> window_state = "open")

(* C25 witness: a tick boundary with the window open and window_open true,  *)
(* a flag-free poll later than the first behind it.                         *)
C25_Witness ==
    /\ pc = "poll"
    /\ last_op = "tick_sleep"
    /\ window_state = "open"
    /\ system_status.window_open
    /\ last_sensor_check > StartTime

(* C26: MQTT bring-up.  When WiFi is up and the broker connect and the      *)
(* subscription succeed, initialize_system ends with a client and with      *)
(* is_connected() true.                                                     *)
C26_BringUpConnects ==
    last_op = "initialize_system_broker_up" => (client /\ connected)

====
